---- MODULE Spec2Model ----
(***************************************************************************)
(* FinQorp: the recommendation scorer (modules/recommendation.py), the     *)
(* fundamentals provider it calls (modules/fundamentals.py), the forecast  *)
(* ensemble (modules/forecast.py), the news sentiment                      *)
(* (modules/sentiment.py, modules/data_fetch.py), the Monte Carlo          *)
(* simulator the application calls, and the session state of app.py.       *)
(* Each has its own specification; the variables of the others stay idle.  *)
(*                                                                         *)
(* Python floats are modelled as exact rationals n/d (d > 0, lowest        *)
(* terms), together with the three non-numbers the code distinguishes:     *)
(* NaN, None and a raised exception.  Rounding of binary floating point    *)
(* is not modelled.                                                        *)
(***************************************************************************)
EXTENDS Integers, Sequences, FiniteSets, TLC

VARIABLES
    \* -- one _normalize call and the call before it (same low, high)
    low, high, raw, out, prevRaw, prevOut,
    \* -- one get_recommendation request
    fund,             \* what the yfinance lookup inside get_fundamentals does
    hist_df,          \* the 'y' column of the price frame
    simulations,      \* the last row of the simulation matrix, or malformed
    sentiment_score,  \* the sentiment argument
    pc,               \* "call" before the request runs, "returned" after
    rec,              \* what the request produced
    \* -- one generate_all_forecasts run
    y,                \* the Close column: its length and its last value
    env,              \* which optional libraries were imported
    lib,              \* what each model's library does on y
    epc,              \* "call", the model about to run, "returned" or "raised"
    calls,            \* how often each model function was invoked
    warned,           \* which models printed a failure or unavailable message
    ens,              \* what the run produced
    \* -- one analyze_sentiment call
    feed,             \* what the two news sources answer
    scoring,          \* the score of each headline, and what fails after filtering
    sa_pc,            \* "call" before the call runs, "returned" after
    sa,               \* what the call produced
    \* -- one generate_forecast call
    prices,           \* the closing prices of the instrument
    period,           \* the horizon in days
    num_simulations,  \* the number of paths
    seed,             \* the seed of the random source
    mc_pc,            \* "call" before the call runs, "returned" after
    bundle,           \* the simulated paths, one sequence of prices per path
    \* -- the application's session
    ss,               \* st.session_state
    written,          \* per field, the number of the request that last assigned it
    req,              \* the number of search and selection requests so far
    lastCall,         \* the last callback that ran, and its query
    \* -- one get_headlines call
    news,             \* what the two news sources answer
    limit_arg,        \* the limit argument
    gh_pc,            \* "call" before the call runs, "returned" after
    fetched           \* the list returned, and whether the fallback was queried

normVars == <<low, high, raw, out, prevRaw, prevOut>>
recVars == <<fund, hist_df, simulations, sentiment_score, pc, rec>>
ensVars == <<y, env, lib, epc, calls, warned, ens>>
saVars == <<feed, scoring, sa_pc, sa>>
mcVars == <<prices, period, num_simulations, seed, mc_pc, bundle>>
appVars == <<ss, written, req, lastCall>>
newsVars == <<news, limit_arg, gh_pc, fetched>>
vars == <<normVars, recVars, ensVars, saVars, mcVars, appVars, newsVars>>

\* what an operation of one group leaves alone
exceptNorm == <<recVars, ensVars, saVars, mcVars, appVars, newsVars>>
exceptRec == <<normVars, ensVars, saVars, mcVars, appVars, newsVars>>
exceptEns == <<normVars, recVars, saVars, mcVars, appVars, newsVars>>
exceptSent == <<normVars, recVars, ensVars, mcVars, appVars, newsVars>>
exceptSim == <<normVars, recVars, ensVars, saVars, appVars, newsVars>>
exceptApp == <<normVars, recVars, ensVars, saVars, mcVars, newsVars>>
exceptNews == <<normVars, recVars, ensVars, saVars, mcVars, appVars>>

-----------------------------------------------------------------------------
(* Numbers *)

Abs(i) == IF i < 0 THEN -i ELSE i

RECURSIVE GCD(_, _)
GCD(a, b) == IF b = 0 THEN a ELSE GCD(b, a % b)

\* the float n/d, d > 0, in lowest terms
Q(n, d) ==
    LET g == GCD(Abs(n), d)
    IN  [k |-> "num", n |-> n \div g, d |-> d \div g]

Whole(i) == Q(i, 1)
NaN == [k |-> "nan", n |-> 0, d |-> 1]
None == [k |-> "none", n |-> 0, d |-> 1]
\* an exception raised while evaluating an expression
Raised == [k |-> "err", n |-> 0, d |-> 1]

IsNum(a) == a.k = "num"
\* np.isnan
IsNaN(a) == a.k = "nan"

\* a binary float operation: None operands raise TypeError, NaN propagates
Arith(a, b, r) ==
    IF a.k \in {"err", "none"} \/ b.k \in {"err", "none"} THEN Raised
    ELSE IF a.k = "nan" \/ b.k = "nan" THEN NaN
    ELSE r

Add(a, b) == Arith(a, b, Q(a.n * b.d + b.n * a.d, a.d * b.d))
Sub(a, b) == Arith(a, b, Q(a.n * b.d - b.n * a.d, a.d * b.d))
Mul(a, b) == Arith(a, b, Q(a.n * b.n, a.d * b.d))
\* division by a zero Python number raises ZeroDivisionError
Div(a, b) ==
    Arith(a, b,
          IF b.n = 0 THEN Raised
          ELSE IF b.n < 0 THEN Q(-(a.n * b.d), a.d * (-b.n))
          ELSE Q(a.n * b.d, a.d * b.n))

\* comparisons of two numbers
\* (any comparison with NaN is false)
Lt(a, b) == IsNum(a) /\ IsNum(b) /\ a.n * b.d < b.n * a.d
Le(a, b) == IsNum(a) /\ IsNum(b) /\ a.n * b.d <= b.n * a.d
Gt(a, b) == Lt(b, a)

\* Python's min(a, b) and max(a, b): the first argument unless the second beats it
PyMin(a, b) == IF a.k = "err" \/ b.k = "err" THEN Raised ELSE IF Lt(b, a) THEN b ELSE a
PyMax(a, b) == IF a.k = "err" \/ b.k = "err" THEN Raised ELSE IF Gt(b, a) THEN b ELSE a

\* abs()
PyAbs(a) == IF IsNum(a) THEN Q(Abs(a.n), a.d) ELSE a

-----------------------------------------------------------------------------
(* recommendation.py: _normalize *)

\* a plausible slip: the clamp to [-1, 1] left out
NormalizeNoClamp(value, lo, hi) ==
    IF value.k = "none" \/ IsNaN(value) THEN Whole(0)
    ELSE Sub(Mul(Whole(2), Div(Sub(value, lo), Sub(hi, lo))), Whole(1))

\* a plausible slip: the missing-value guard left out
NormalizeNoGuard(value, lo, hi) ==
    PyMax(Whole(-1), PyMin(Whole(1),
        Sub(Mul(Whole(2), Div(Sub(value, lo), Sub(hi, lo))), Whole(1))))

_normalize(value, lo, hi) ==
    IF value.k = "none" \/ IsNaN(value) THEN Whole(0)
    ELSE PyMax(Whole(-1), PyMin(Whole(1),
            Sub(Mul(Whole(2), Div(Sub(value, lo), Sub(hi, lo))), Whole(1))))

-----------------------------------------------------------------------------
(* _normalize applied to drawn arguments *)

\* the limits are the integers -MaxLim .. MaxLim, the raw values the halves
\* -MaxRaw/2 .. MaxRaw/2, None and NaN
MaxLim == 2
MaxRaw == 6

Limits == {Whole(i) : i \in -MaxLim..MaxLim}
RawValues == {Q(i, 2) : i \in -MaxRaw..MaxRaw} \cup {None, NaN}

\* no call made yet
Unset == [k |-> "unset", n |-> 0, d |-> 1]

InitNorm ==
    /\ low \in Limits
    /\ high \in Limits
    /\ raw = Unset
    /\ out = Unset
    /\ prevRaw = Unset
    /\ prevOut = Unset

\* one call _normalize(v, low, high); the call before it is remembered
Normalize ==
    \E v \in RawValues :
        /\ raw' = v
        /\ out' = _normalize(v, low, high)
        /\ prevRaw' = raw
        /\ prevOut' = out
        /\ UNCHANGED <<low, high>>

-----------------------------------------------------------------------------
(* Strings: sequences of one-character strings *)

DigitChars == <<"0", "1", "2", "3", "4", "5", "6", "7", "8", "9">>
IsDigit(c) == \E i \in 1..10 : DigitChars[i] = c
DigitOf(c) == (CHOOSE i \in 1..10 : DigitChars[i] = c) - 1

RECURSIVE NatStr(_)
NatStr(n) ==
    IF n < 10 THEN <<DigitChars[n + 1]>>
    ELSE NatStr(n \div 10) \o <<DigitChars[(n % 10) + 1]>>

RECURSIVE DigitsValue(_)
DigitsValue(s) ==
    IF s = <<>> THEN 0
    ELSE 10 * DigitsValue(SubSeq(s, 1, Len(s) - 1)) + DigitOf(s[Len(s)])

RECURSIVE Pow10(_)
Pow10(e) == IF e = 0 THEN 1 ELSE 10 * Pow10(e - 1)

\* |a| in hundredths, rounded to the nearest
Hundredths(a) == (2 * Abs(a.n) * 100 + a.d) \div (2 * a.d)

SignStr(a) == IF a.n < 0 /\ Hundredths(a) > 0 THEN <<"-">> ELSE <<>>

\* f"{a:.2f}"
Fmt2f(a) ==
    LET h == Hundredths(a)
    IN  SignStr(a) \o NatStr(h \div 100) \o <<".">>
            \o <<DigitChars[((h \div 10) % 10) + 1], DigitChars[(h % 10) + 1]>>

\* str(round(a, 2)): the shortest decimal, at least one digit after the point
ReprRound2(a) ==
    LET h == Hundredths(a)
        frac == IF h % 100 = 0 THEN <<"0">>
                ELSE IF h % 10 = 0 THEN <<DigitChars[((h \div 10) % 10) + 1]>>
                ELSE <<DigitChars[((h \div 10) % 10) + 1], DigitChars[(h % 10) + 1]>>
    IN  SignStr(a) \o NatStr(h \div 100) \o <<".">> \o frac

\* float(s) for decimal literals [sign] digits [. digits]; ValueError gives Raised
ParseFloat(s) ==
    LET signed == Len(s) > 0 /\ s[1] \in {"-", "+"}
        body == IF signed THEN Tail(s) ELSE s
        dots == {i \in 1..Len(body) : body[i] = "."}
        digits == SelectSeq(body, IsDigit)
        valid == /\ \A i \in 1..Len(body) : IsDigit(body[i]) \/ body[i] = "."
                 /\ Cardinality(dots) <= 1
                 /\ Len(digits) >= 1
        fracLen == IF dots = {} THEN 0 ELSE Len(body) - (CHOOSE i \in dots : TRUE)
        mag == DigitsValue(digits)
    IN  IF ~valid THEN Raised
        ELSE Q(IF signed /\ s[1] = "-" THEN -mag ELSE mag, Pow10(fracLen))

-----------------------------------------------------------------------------
(* fundamentals.py: get_fundamentals *)

\* values a metrics dict holds; NoneValue is what dict.get gives for no key
FloatValue(a) == [t |-> "float", v |-> a, s |-> <<>>]
StrValue(chars) == [t |-> "str", v |-> None, s |-> chars]
NoneValue == [t |-> "none", v |-> None, s |-> <<>>]
NA == StrValue(<<"N", "/", "A">>)

\* str(x)
PyStr(x) ==
    CASE x.t = "float" -> ReprRound2(x.v)
      [] x.t = "str" -> x.s
      [] OTHER -> <<"N", "o", "n", "e">>

\* truthiness of info.get(key): None, a missing key and 0 are false
Truthy(a) == IsNum(a) /\ a.n # 0

\* the dict of the except clause (value: the message)
ErrorMetrics == [x \in {"Error"} |-> StrValue(<<"F", "a", "i", "l", "e", "d">>)]

\* The tuple get_fundamentals returns.  f.raises: the yfinance lookup raised.
\* f.pe, f.pm: info["trailingPE"], info["profitMargins"]; f.roe, f.de: the locals
\* roe and de_ratio after the balance-sheet arithmetic; NaN stands for a value
\* that is not available.  Only the four ratios the scorer reads are kept.
get_fundamentals(f) ==
    IF f.raises THEN <<ErrorMetrics, "no figs">>
    ELSE <<[x \in {"P/E Ratio", "ROE", "Profit Margin", "Debt-to-Equity"} |->
              CASE x = "P/E Ratio" ->
                       IF Truthy(f.pe) THEN FloatValue(f.pe) ELSE NA
                [] x = "ROE" ->
                       IF ~IsNaN(f.roe) THEN StrValue(Fmt2f(f.roe) \o <<"%">>) ELSE NA
                [] x = "Profit Margin" ->
                       IF Truthy(f.pm)
                       THEN StrValue(ReprRound2(Mul(f.pm, Whole(100))) \o <<"%">>)
                       ELSE NA
                [] OTHER ->
                       IF ~IsNaN(f.de) THEN StrValue(Fmt2f(f.de)) ELSE NA],
            "figs">>

-----------------------------------------------------------------------------
(* recommendation.py: get_recommendation *)

\* metrics.get(key)
MetricsGet(metrics, key) == IF key \in DOMAIN metrics THEN metrics[key] ELSE NoneValue

StripChars == {"%", ",", "$"}

safe_num(v) ==
    LET parsed == ParseFloat(SelectSeq(PyStr(v), LAMBDA c : c \notin StripChars))
    IN  IF parsed.k = "err" THEN NaN ELSE parsed

\* the four ratios as the scorer reads them
RatioPE(metrics) == safe_num(MetricsGet(metrics, "P/E Ratio"))
RatioROE(metrics) == safe_num(MetricsGet(metrics, "ROE"))
RatioPM(metrics) == safe_num(MetricsGet(metrics, "Profit Margin"))
RatioDE(metrics) == safe_num(MetricsGet(metrics, "Debt-to-Equity"))

\* the normalized value of each ratio that is present, 0 for one that is not
TermPE(pe) == IF ~IsNaN(pe) THEN _normalize(Sub(Whole(40), pe), Whole(-20), Whole(40)) ELSE Whole(0)
TermROE(roe) == IF ~IsNaN(roe) THEN _normalize(roe, Whole(0), Whole(25)) ELSE Whole(0)
TermPM(pm) == IF ~IsNaN(pm) THEN _normalize(pm, Whole(0), Whole(30)) ELSE Whole(0)
TermDE(de) == IF ~IsNaN(de) THEN _normalize(Sub(Whole(200), de), Whole(-100), Whole(200)) ELSE Whole(0)

FundamentalScore(metrics) ==
    LET f_score == Add(Add(Add(TermPE(RatioPE(metrics)), TermROE(RatioROE(metrics))),
                           TermPM(RatioPM(metrics))), TermDE(RatioDE(metrics)))
    IN  IF f_score.n # 0 THEN Div(f_score, Whole(4)) ELSE Whole(0)

\* np.percentile(row, 50): the middle of the sorted row, interpolated linearly
Percentile50(row) ==
    LET sorted == SortSeq(row, LAMBDA a, b : a < b)
        n == Len(row)
    IN  IF n % 2 = 1 THEN Whole(sorted[(n + 1) \div 2])
        ELSE Q(sorted[n \div 2] + sorted[(n \div 2) + 1], 2)

\* hist_df['y'].iloc[-1]: IndexError on an empty frame
LastActual(hist) == IF Len(hist) = 0 THEN Raised ELSE Whole(hist[Len(hist)])

\* simulations[-1, :] and its median: TypeError when the matrix is malformed
MedianForecastPrice(sims) == IF ~sims.ok THEN Raised ELSE Percentile50(sims.row)

\* a plausible slip: a nudge of 20% instead of 10%
SentimentDriftDoubled(hist, s) == Mul(Mul(LastActual(hist), s), Q(2, 10))

\* sentiment_drift = last_actual * sentiment_score * 0.1
SentimentDrift(hist, s) == Mul(Mul(LastActual(hist), s), Q(1, 10))

\* the body of the inner try: Raised when any statement of it raises
ForecastTry(hist, sims, s) ==
    LET last_actual == LastActual(hist)
        median_forecast_price == MedianForecastPrice(sims)
        sentiment_drift == SentimentDrift(hist, s)
        avg_future_adjusted == Add(median_forecast_price, sentiment_drift)
        percent_change ==
            Mul(Div(Sub(avg_future_adjusted, last_actual), last_actual), Whole(100))
    IN  _normalize(percent_change, Whole(-10), Whole(10))

ForecastRaised(hist, sims, s) == ForecastTry(hist, sims, s).k = "err"

\* the inner try with its except clause
ForecastScore(hist, sims, s) ==
    IF ForecastRaised(hist, sims, s) THEN Whole(0) ELSE ForecastTry(hist, sims, s)

SentimentNormalized(s) == _normalize(s, Whole(-1), Whole(1))

\* a plausible slip: weights renormalized to one half and two quarters
CompositeOtherWeights(forecast_score, fundamental_score, sentiment_norm) ==
    Add(Add(Mul(Q(5, 10), forecast_score), Mul(Q(25, 100), fundamental_score)),
        Mul(Q(25, 100), sentiment_norm))

Composite(forecast_score, fundamental_score, sentiment_norm) ==
    Add(Add(Mul(Q(4, 10), forecast_score), Mul(Q(3, 10), fundamental_score)),
        Mul(Q(3, 10), sentiment_norm))

\* a plausible slip: the thresholds taken inclusively
LabelInclusive(comp) ==
    IF Le(Q(6, 10), comp) THEN "Strong Buy"
    ELSE IF Le(Q(3, 10), comp) THEN "Buy"
    ELSE IF Le(Q(-3, 10), comp) THEN "Hold"
    ELSE IF Le(Q(-6, 10), comp) THEN "Sell"
    ELSE "Strong Sell"

Label(comp) ==
    IF Gt(comp, Q(6, 10)) THEN "Strong Buy"
    ELSE IF Gt(comp, Q(3, 10)) THEN "Buy"
    ELSE IF Gt(comp, Q(-3, 10)) THEN "Hold"
    ELSE IF Gt(comp, Q(-6, 10)) THEN "Sell"
    ELSE "Strong Sell"

Emoji(comp) ==
    IF Gt(comp, Q(3, 10)) THEN "up"
    ELSE IF Lt(comp, Q(-3, 10)) THEN "down"
    ELSE "thinking"

\* a plausible slip: the confidence is the composite itself
ConfidenceSigned(comp) == comp

Confidence(comp) == PyAbs(comp)

\* no call made yet
NoResult ==
    [kind |-> "none", label |-> "", emoji |-> "", comp |-> Unset, conf |-> Unset,
     forecast_score |-> Unset, fundamental_score |-> Unset,
     sentiment_norm |-> Unset, forecast_error_printed |-> FALSE, gauge |-> "None"]

\* (f"Error generating recommendation: {e}", None)
ErrorResult == [NoResult EXCEPT !.kind = "error"]

\* an exception that leaves get_recommendation
Escaped == [NoResult EXCEPT !.kind = "raised"]

\* the statements after the fundamentals lookup, to the return of (text, gauge)
ScoreBlock(metrics, hist, sims, s) ==
    LET fundamental_score == FundamentalScore(metrics)
        forecast_score == ForecastScore(hist, sims, s)
        sentiment_norm == SentimentNormalized(s)
        comp == Composite(forecast_score, fundamental_score, sentiment_norm)
    IN  [kind |-> "ok", label |-> Label(comp), emoji |-> Emoji(comp),
         comp |-> comp, conf |-> Confidence(comp),
         forecast_score |-> forecast_score,
         fundamental_score |-> fundamental_score,
         sentiment_norm |-> sentiment_norm,
         forecast_error_printed |-> ForecastRaised(hist, sims, s),
         gauge |-> "Figure"]

\* a plausible slip: an except clause that names the wrong exception
ExceptKeyError(exc) == IF exc = "KeyError" THEN ErrorResult ELSE Escaped

\* except Exception as e: return the error text and no gauge
ExceptException(exc) == ErrorResult

\* metrics, _, _ = t: ValueError unless t has three elements
UnpacksToThree(t) == Len(t) = 3

get_recommendation(f, hist, sims, s) ==
    LET t == get_fundamentals(f)
    IN  IF ~UnpacksToThree(t) THEN ExceptException("ValueError")
        ELSE ScoreBlock(t[1], hist, sims, s)

-----------------------------------------------------------------------------
(* The requests *)

\* the longest simulation row drawn
MaxPaths == 2

FailedLookup == [raises |-> TRUE, pe |-> NaN, roe |-> NaN, pm |-> NaN, de |-> NaN]

\* per ratio: not available, a value normalized to +1 and one normalized to -1
\* (ROE also one in between)
PEValues == {NaN, Whole(-5), Whole(60)}
ROEValues == {NaN, Whole(0), Whole(10), Whole(25)}
PMValues == {NaN, Q(-5, 100), Q(30, 100)}
DEValues == {NaN, Whole(0), Whole(300)}

FundOutcomes ==
    {FailedLookup} \cup
    [raises : {FALSE}, pe : PEValues, roe : ROEValues, pm : PMValues, de : DEValues]

HistFrames == {<<>>, <<95, 100>>, <<100, 50>>}

SimPrices == {90, 100, 110}
Malformed == [ok |-> FALSE, row |-> <<>>]
SimInputs ==
    {Malformed} \cup
    {[ok |-> TRUE, row |-> r] : r \in UNION {[1..n -> SimPrices] : n \in 1..MaxPaths}}

SentimentValues ==
    {None, NaN, Whole(-2), Whole(-1), Whole(0), Q(8, 10), Whole(1), Whole(2)}

IdleNorm ==
    /\ low = Whole(0)
    /\ high = Whole(0)
    /\ raw = Unset
    /\ out = Unset
    /\ prevRaw = Unset
    /\ prevOut = Unset

IdleRec ==
    /\ fund = FailedLookup
    /\ hist_df = <<>>
    /\ simulations = Malformed
    /\ sentiment_score = None
    /\ pc = "idle"
    /\ rec = NoResult

InitRec ==
    /\ fund \in FundOutcomes
    /\ hist_df \in HistFrames
    /\ simulations \in SimInputs
    /\ sentiment_score \in SentimentValues
    /\ pc = "call"
    /\ rec = NoResult

\* recommendation.get_recommendation(symbol, hist_df, simulations, sentiment_score)
GetRecommendation ==
    /\ pc = "call"
    /\ rec' = get_recommendation(fund, hist_df, simulations, sentiment_score)
    /\ pc' = "returned"
    /\ UNCHANGED <<fund, hist_df, simulations, sentiment_score>>
    /\ UNCHANGED exceptRec

\* the statements of get_recommendation after line 22, run on the metrics dict
\* that get_fundamentals returned
Score ==
    /\ pc = "call"
    /\ rec' = ScoreBlock(get_fundamentals(fund)[1], hist_df, simulations,
                         sentiment_score)
    /\ pc' = "returned"
    /\ UNCHANGED <<fund, hist_df, simulations, sentiment_score>>
    /\ UNCHANGED exceptRec

-----------------------------------------------------------------------------
(* forecast.py: the ensemble *)

\* steps=30 of the model functions, the 30 of _safe_run, the 31 - 1 future dates
Steps == 30
FallbackSteps == 30
FutureDays == 30
\* the sliding windows: range(60, ...) of _lstm, range(10, ...) of _xgb and _svr
WindowLSTM == 60
WindowSmall == 10

Models == <<"LSTM", "XGBoost", "SVR", "Transformer">>
ModelSet == {Models[i] : i \in 1..Len(Models)}

\* A path of n predicted prices: flat paths repeat level n times, the others
\* start at level and move away from it.
Path(n, flat, level) == [len |-> n, flat |-> flat, level |-> level]
NoPath == Path(0, TRUE, 0)

\* np.repeat(y[-1], n)
Repeat(series, n) == Path(n, TRUE, series.last)

\* what a model function gives back to _safe_run
Returns(path, printed) == [raised |-> FALSE, path |-> path, printed |-> printed]
Raises == [raised |-> TRUE, path |-> NoPath, printed |-> FALSE]

\* l: what fit and predict of the library do on this series
_lstm(series, e, l) ==
    IF ~e.keras THEN Returns(Repeat(series, Steps), TRUE)
    ELSE IF series.len <= WindowLSTM \/ l.raises THEN Raises
    ELSE Returns(l.path, FALSE)

_xgb(series, e, l) ==
    IF ~e.xgboost THEN Returns(Repeat(series, Steps), TRUE)
    ELSE IF series.len <= WindowSmall \/ l.raises THEN Raises
    ELSE Returns(l.path, FALSE)

_svr(series, e, l) ==
    IF series.len <= WindowSmall \/ l.raises THEN Raises
    ELSE Returns(l.path, FALSE)

_transformer(series, e, l) ==
    IF l.raises THEN Returns(Repeat(series, Steps), TRUE)
    ELSE Returns(l.path, FALSE)

ModelFunction(m, series, e, l) ==
    CASE m = "LSTM" -> _lstm(series, e, l)
      [] m = "XGBoost" -> _xgb(series, e, l)
      [] m = "SVR" -> _svr(series, e, l)
      [] OTHER -> _transformer(series, e, l)

\* a plausible slip: the fallback one value short
SafeRunShortFallback(r, series) ==
    IF r.raised
    THEN [raised |-> FALSE, path |-> Repeat(series, FallbackSteps - 1), calls |-> 1,
          printed |-> TRUE]
    ELSE [raised |-> FALSE, path |-> r.path, calls |-> 1, printed |-> r.printed]

\* a plausible slip: the failed model is tried a second time
SafeRunRetry(r, series) ==
    IF r.raised
    THEN [raised |-> FALSE, path |-> Repeat(series, FallbackSteps), calls |-> 2,
          printed |-> TRUE]
    ELSE [raised |-> FALSE, path |-> r.path, calls |-> 1, printed |-> r.printed]

\* a plausible slip: the exception is printed and raised again
SafeRunReraise(r, series) ==
    IF r.raised
    THEN [raised |-> TRUE, path |-> NoPath, calls |-> 1, printed |-> TRUE]
    ELSE [raised |-> FALSE, path |-> r.path, calls |-> 1, printed |-> r.printed]

\* _safe_run(func, label, y), r being what the one call func(y) did
_safe_run(r, series) ==
    IF r.raised
    THEN [raised |-> FALSE, path |-> Repeat(series, FallbackSteps), calls |-> 1,
          printed |-> TRUE]
    ELSE [raised |-> FALSE, path |-> r.path, calls |-> 1, printed |-> r.printed]

\* the longest series drawn besides those around the two windows
MaxLen == 2

SeriesLengths ==
    (0..MaxLen) \cup {WindowSmall, WindowSmall + 1, WindowLSTM, WindowLSTM + 1}
LastPrices == {100, 120}
SeriesInputs ==
    {[len |-> 0, last |-> 0]} \cup
    {[len |-> n, last |-> p] : n \in SeriesLengths \ {0}, p \in LastPrices}

\* a library raises, predicts the last price throughout, or predicts a moving path
LibraryBehaviours(series) ==
    {[raises |-> TRUE, path |-> NoPath],
     [raises |-> FALSE, path |-> Path(Steps, TRUE, series.last)],
     [raises |-> FALSE, path |-> Path(Steps, FALSE, series.last + 1)]}

NoEnsemble == [kind |-> "none", preds |-> <<>>, future_dates |-> 0]

IdleEns ==
    /\ y = [len |-> 0, last |-> 0]
    /\ env = [keras |-> FALSE, xgboost |-> FALSE]
    /\ lib = [m \in ModelSet |-> [raises |-> TRUE, path |-> NoPath]]
    /\ epc = "idle"
    /\ calls = [m \in ModelSet |-> 0]
    /\ warned = [m \in ModelSet |-> FALSE]
    /\ ens = NoEnsemble

InitEns ==
    /\ y \in SeriesInputs
    /\ env \in [keras : BOOLEAN, xgboost : BOOLEAN]
    /\ lib \in [ModelSet -> LibraryBehaviours(y)]
    /\ epc = "call"
    /\ calls = [m \in ModelSet |-> 0]
    /\ warned = [m \in ModelSet |-> FALSE]
    /\ ens = NoEnsemble

\* generate_all_forecasts up to the dict of predictions: df["Date"].iloc[-1]
\* raises IndexError on an empty frame, before any model runs
EnsStart ==
    /\ epc = "call"
    /\ IF y.len = 0
       THEN /\ epc' = "raised"
            /\ ens' = [NoEnsemble EXCEPT !.kind = "raised"]
       ELSE /\ epc' = Models[1]
            /\ ens' = [NoEnsemble EXCEPT !.kind = "running", !.future_dates = FutureDays]
    /\ UNCHANGED <<y, env, lib, calls, warned>>
    /\ UNCHANGED exceptEns

Position(m) == CHOOSE i \in 1..Len(Models) : Models[i] = m

\* preds[m] = _safe_run(model, m, y) for the next model of the dict, and the
\* return after the last one
RunModel ==
    /\ epc \in ModelSet
    /\ LET m == epc
           r == _safe_run(ModelFunction(m, y, env, lib[m]), y)
           last == Position(m) = Len(Models)
       IN  /\ calls' = [calls EXCEPT ![m] = @ + r.calls]
           /\ warned' = [warned EXCEPT ![m] = r.printed]
           /\ IF r.raised
              THEN /\ epc' = "raised"
                   /\ ens' = [NoEnsemble EXCEPT !.kind = "raised"]
              ELSE /\ epc' = IF last THEN "returned" ELSE Models[Position(m) + 1]
                   /\ ens' = [ens EXCEPT !.preds = Append(@, r.path),
                                         !.kind = IF last THEN "ok" ELSE @]
    /\ UNCHANGED <<y, env, lib>>
    /\ UNCHANGED exceptEns

\* preds[m] of the run
Pred(m) == ens.preds[Position(m)]

-----------------------------------------------------------------------------
(* data_fetch.py get_headlines and sentiment.py analyze_sentiment *)

\* titles are sequences of characters
IsSpace(c) == c \in {" ", "\t", "\n"}

RECURSIVE LStrip(_)
LStrip(t) ==
    IF t = <<>> THEN <<>>
    ELSE IF IsSpace(Head(t)) THEN LStrip(Tail(t)) ELSE t

RECURSIVE RStrip(_)
RStrip(t) ==
    IF t = <<>> THEN <<>>
    ELSE IF IsSpace(t[Len(t)]) THEN RStrip(SubSeq(t, 1, Len(t) - 1)) ELSE t

\* str.strip()
Strip(t) == RStrip(LStrip(t))

LowerChar(c) ==
    CASE c = "H" -> "h"
      [] c = "T" -> "t"
      [] c = "P" -> "p"
      [] OTHER -> c

\* title.lower().startswith("http")
StartsWithHttp(t) ==
    /\ Len(t) >= 4
    /\ [i \in 1..4 |-> LowerChar(t[i])] = <<"h", "t", "t", "p">>

\* "..." in title
HasEllipsis(t) ==
    \E i \in 1..(Len(t) - 2) : t[i] = "." /\ t[i + 1] = "." /\ t[i + 2] = "."

\* limit=20 of get_headlines, the 5 of its length test, the 8 of analyze_sentiment's
HeadlineLimit == 20
MinFetchedLength == 5
MinTitleLength == 8

\* the loop of get_headlines over the items: strip, skip the invalid ones
RECURSIVE CleanTitles(_)
CleanTitles(items) ==
    IF items = <<>> THEN <<>>
    ELSE LET title == Strip(Head(items))
             rest == CleanTitles(Tail(items))
         IN  IF \/ title = <<>>
                \/ StartsWithHttp(title)
                \/ HasEllipsis(title)
                \/ Len(title) < MinFetchedLength
             THEN rest
             ELSE <<title>> \o rest

\* the first occurrence of every title, in order
RECURSIVE Unique(_, _)
Unique(titles, seen) ==
    IF titles = <<>> THEN <<>>
    ELSE IF Head(titles) \in seen THEN Unique(Tail(titles), seen)
    ELSE <<Head(titles)>> \o Unique(Tail(titles), seen \cup {Head(titles)})

\* an item whose title is None: item.get("title", "").strip() raises on it
NoneTitle == <<"None">>

\* the position of the first item the loop raises on, 0 if there is none
BrokenAt(items) ==
    IF \E i \in 1..Len(items) : items[i] = NoneTitle
    THEN CHOOSE i \in 1..Len(items) :
             items[i] = NoneTitle /\ \A j \in 1..(i - 1) : items[j] # NoneTitle
    ELSE 0

\* gn.result()[:limit], items[:limit]
FirstItems(items, limit) ==
    SubSeq(items, 1, IF Len(items) < limit THEN Len(items) ELSE limit)

\* the list `headlines` when the primary try block is left: what the loop
\* appended before an item raised, nothing when the search itself raised
PrimaryAppended(f, limit) ==
    LET results == FirstItems(f.primary.items, limit)
    IN  IF f.primary.raises \/ BrokenAt(results) = 0 THEN <<>>
        ELSE CleanTitles(SubSeq(results, 1, BrokenAt(results) - 1))

\* the primary try block returns: results came and no item raised
PrimaryReturns(f, limit) ==
    LET results == FirstItems(f.primary.items, limit)
    IN  ~f.primary.raises /\ results # <<>> /\ BrokenAt(results) = 0

\* a plausible slip: the fallback is queried whatever the primary source gave
FetchBothSources(f, limit) ==
    LET items == FirstItems(f.fallback.items, limit)
    IN  IF f.fallback.ok /\ BrokenAt(items) = 0
        THEN [list |-> Unique(PrimaryAppended(f, limit) \o CleanTitles(items), {}),
              fallback_queried |-> TRUE]
        ELSE [list |-> <<>>, fallback_queried |-> TRUE]

\* get_headlines with what it did: the GoogleNews results if the primary block
\* returns, else the RSS items appended to what the primary loop left in
\* `headlines`, else nothing; it catches every exception of either source
Fetch(f, limit) ==
    IF PrimaryReturns(f, limit)
    THEN [list |-> Unique(CleanTitles(FirstItems(f.primary.items, limit)), {}),
          fallback_queried |-> FALSE]
    ELSE LET items == FirstItems(f.fallback.items, limit)
         IN  IF f.fallback.ok /\ BrokenAt(items) = 0
             THEN [list |-> Unique(PrimaryAppended(f, limit) \o CleanTitles(items), {}),
                   fallback_queried |-> TRUE]
             ELSE [list |-> <<>>, fallback_queried |-> TRUE]

get_headlines(f, limit) == Fetch(f, limit).list

\* a plausible slip: the length test left out
RECURSIVE ValidTitlesAnyLength(_, _)
ValidTitlesAnyLength(headlines, seen) ==
    IF headlines = <<>> THEN <<>>
    ELSE LET title == Strip(Head(headlines))
         IN  IF title = <<>> \/ title \in seen
             THEN ValidTitlesAnyLength(Tail(headlines), seen)
             ELSE <<title>> \o ValidTitlesAnyLength(Tail(headlines), seen \cup {title})

\* the filtering loop of analyze_sentiment
RECURSIVE ValidTitles(_, _)
ValidTitles(headlines, seen) ==
    IF headlines = <<>> THEN <<>>
    ELSE LET title == Strip(Head(headlines))
         IN  IF title = <<>> \/ Len(title) < MinTitleLength \/ title \in seen
             THEN ValidTitles(Tail(headlines), seen)
             ELSE <<title>> \o ValidTitles(Tail(headlines), seen \cup {title})

RECURSIVE SumScores(_, _)
SumScores(scores, n) ==
    IF n = 0 THEN Whole(0) ELSE Add(SumScores(scores, n - 1), scores[n])

\* np.mean of the first n scores
Mean(scores, n) == Div(SumScores(scores, n), Whole(n))

SentimentResult(summary, fig, score) ==
    [kind |-> "returned", summary |-> summary, fig |-> fig, score |-> score]
NoSentiment == [kind |-> "none", summary |-> "", fig |-> "None", score |-> None]

\* except Exception as e
SentimentExcept(sc) == SentimentResult("Error analyzing sentiment", "None", Whole(0))

analyze_sentiment(f, sc) ==
    LET headlines == get_headlines(f, HeadlineLimit)
        valid == ValidTitles(headlines, {})
    IN  IF headlines = <<>>
        THEN SentimentResult("No recent headlines found.", "None", Whole(0))
        ELSE IF valid = <<>>
        THEN SentimentResult("No valid text headlines found.", "None", Whole(0))
        ELSE IF sc.raises # "nothing"
        THEN SentimentExcept(sc)
        ELSE SentimentResult("report", "figure", Mean(sc.scores, Len(valid)))

\* the most items a news source answers with
MaxHeadlines == 2

TBlank == <<" ", " ">>
T5 == <<"R", "a", "t", "e", "s">>
T7Padded == <<" ", "R", "a", "t", "e", "s", " ", "u">>
T8 == <<"R", "a", "t", "e", "s", " ", "u", "p">>
T8Padded == <<" ", "R", "a", "t", "e", "s", " ", "u", "p", " ">>
T10 == <<"P", "r", "o", "f", "i", "t", "s", " ", "u", "p">>
THttp == <<"H", "T", "T", "P", ":", "/", "/", "a", "b">>
TDots == <<"R", "a", "t", "e", "s", ".", ".", ".", "u", "p">>
RawTitles == {TBlank, T5, T7Padded, T8, T8Padded, T10, THttp, TDots}

ItemLists == UNION {[1..n -> RawTitles] : n \in 0..MaxHeadlines}
PrimaryOutcomes ==
    {[raises |-> TRUE, items |-> <<>>]} \cup
    {[raises |-> FALSE, items |-> items] : items \in ItemLists}
FallbackOutcomes ==
    {[ok |-> FALSE, items |-> <<>>]} \cup
    {[ok |-> TRUE, items |-> items] : items \in {<<>>, <<T5>>, <<T8, T10>>}}
HybridScores == {Q(-1, 2), Q(1, 2)}
ScoringOutcomes ==
    [scores : [1..MaxHeadlines -> HybridScores], raises : {"nothing", "score", "plot"}]

IdleSent ==
    /\ feed = [primary |-> [raises |-> TRUE, items |-> <<>>],
               fallback |-> [ok |-> FALSE, items |-> <<>>]]
    /\ scoring = [scores |-> [i \in 1..MaxHeadlines |-> Q(1, 2)], raises |-> "nothing"]
    /\ sa_pc = "idle"
    /\ sa = NoSentiment

InitSent ==
    /\ feed \in [primary : PrimaryOutcomes, fallback : FallbackOutcomes]
    /\ scoring \in ScoringOutcomes
    /\ sa_pc = "call"
    /\ sa = NoSentiment

AnalyzeSentiment ==
    /\ sa_pc = "call"
    /\ sa_pc' = "returned"
    /\ sa' = analyze_sentiment(feed, scoring)
    /\ UNCHANGED <<feed, scoring>>
    /\ UNCHANGED exceptSent

-----------------------------------------------------------------------------
(* forecast.generate_forecast, which app.py calls: the volatility and trend
   estimators and the Monte Carlo simulator *)

\* p_t / p_(t-1) for t = 2..Len
Ratio(series, t) == Q(series[t], series[t - 1])

\* the largest and the smallest of the day-over-day ratios
RECURSIVE MaxRatio(_, _)
MaxRatio(series, t) ==
    IF t = 2 THEN Ratio(series, 2)
    ELSE PyMax(Ratio(series, t), MaxRatio(series, t - 1))

RECURSIVE MinRatio(_, _)
MinRatio(series, t) ==
    IF t = 2 THEN Ratio(series, 2)
    ELSE PyMin(Ratio(series, t), MinRatio(series, t - 1))

\* The dispersion of the daily log-returns: 0 with fewer than 2 points, 0
\* when all returns are equal, positive otherwise (the spread of the ratios
\* stands for the standard deviation of their logarithms).
VolatilityEstimator(series) ==
    IF Len(series) < 2 THEN Whole(0)
    ELSE Sub(MaxRatio(series, Len(series)), MinRatio(series, Len(series)))

\* the average daily step of the series
Slope(series) ==
    IF Len(series) < 2 THEN Whole(0)
    ELSE Q(series[Len(series)] - series[1], Len(series) - 1)

\* the price the trend projects for day t after the last observation
Projected(series, t) == Add(Whole(series[Len(series)]), Mul(Whole(t), Slope(series)))

\* TrendProjection: the day-over-day change of the projected path, first value 0
TrendEstimator(series, h) ==
    [t \in 1..h |->
        IF t = 1 THEN Whole(0)
        ELSE Sub(Div(Projected(series, t), Projected(series, t - 1)), Whole(1))]

\* the seeded random source: draw number k of the stream of a seed
Draw(s, k) == ((s + k * k) % 3) - 1

\* a plausible slip: the shock is the draw itself, not scaled by the volatility
ShockUnscaled(sigma, s, n, t, h) == Whole(Draw(s, (n - 1) * h + t))

\* shock_t of path n: sigma times the path's draw for day t
Shock(sigma, s, n, t, h) == Mul(sigma, Whole(Draw(s, (n - 1) * h + t)))

\* P_t = P_(t-1) * (1 + drift_t + shock_t), from P_0
RECURSIVE SimulatedPrice(_, _, _, _, _, _, _)
SimulatedPrice(p0, drift, sigma, s, n, t, h) ==
    IF t = 0 THEN p0
    ELSE Mul(SimulatedPrice(p0, drift, sigma, s, n, t - 1, h),
             Add(Add(Whole(1), drift[t]), Shock(sigma, s, n, t, h)))

MonteCarloSimulator(p0, drift, sigma, n_paths, h, s) ==
    [n \in 1..n_paths |-> [t \in 1..h |-> SimulatedPrice(p0, drift, sigma, s, n, t, h)]]

generate_forecast(series, h, n_paths, s) ==
    MonteCarloSimulator(Whole(series[Len(series)]), TrendEstimator(series, h),
                        VolatilityEstimator(series), n_paths, h, s)

\* the longest horizon, the most paths, the largest seed
MaxHorizon == 3
MaxSims == 2
MaxSeed == 2

PriceHistories ==
    {<<100>>, <<100, 100, 100>>, <<100, 110, 121>>, <<100, 105, 100>>, <<100, 90>>}

IdleSim ==
    /\ prices = <<100>>
    /\ period = 1
    /\ num_simulations = 1
    /\ seed = 0
    /\ mc_pc = "idle"
    /\ bundle = <<>>

InitSim ==
    /\ prices \in PriceHistories
    /\ period \in 1..MaxHorizon
    /\ num_simulations \in 1..MaxSims
    /\ seed \in 0..MaxSeed
    /\ mc_pc = "call"
    /\ bundle = <<>>

GenerateForecast ==
    /\ mc_pc = "call"
    /\ mc_pc' = "returned"
    /\ bundle' = generate_forecast(prices, period, num_simulations, seed)
    /\ UNCHANGED <<prices, period, num_simulations, seed>>
    /\ UNCHANGED exceptSim

-----------------------------------------------------------------------------
(* app.py: the session state and the navigation callbacks *)

\* None, "" and the empty dict and list are the empty tuple; a stored value v
\* is <<v>>, a stored list is the sequence of its elements

\* the session with every field empty
EmptySession ==
    [ticker |-> <<>>, page |-> "market", analysis_ready |-> FALSE,
     show_disambiguation |-> FALSE, ticker_options |-> <<>>, last_query |-> "",
     key_metrics |-> <<>>, figs |-> <<>>, profile_info |-> <<>>, rec_text |-> <<>>,
     rec_fig |-> <<>>, forecast_fig |-> <<>>, forecast_failed |-> FALSE]

AllFields == DOMAIN EmptySession

\* the fields the script initialises: all but profile_info
InitialSession == [fld \in AllFields \ {"profile_info"} |-> EmptySession[fld]]

\* st.session_state.<field> = value, for every field of updates
Assign(s, updates) ==
    [fld \in DOMAIN s \cup DOMAIN updates |->
        IF fld \in DOMAIN updates THEN updates[fld] ELSE s[fld]]

\* what a callback did: the session it leaves, the fields it assigned, the
\* st.error message it showed, the symbol set_analysis_ticker was called with
\* and the session at that call, and whether the pre-computation ran
Outcome(s, wrote) ==
    [ss |-> s, wrote |-> wrote, error |-> "", called |-> <<>>, before |-> s,
     precomputed |-> FALSE]

\* the options the search answers with: n matches of the query
find_ticker_options(query, n) ==
    [i \in 1..n |-> [name |-> query, ticker |-> <<query, i>>, exchange |-> i]]

\* a plausible slip: a failed pre-computation takes the analysis back
PrecomputeNotReadyOnFailure(s, ticker_symbol, pre) ==
    LET updates ==
            IF pre
            THEN [forecast_failed |-> TRUE, analysis_ready |-> FALSE]
            ELSE [rec_text |-> <<ticker_symbol>>, rec_fig |-> <<ticker_symbol>>,
                  forecast_fig |-> <<ticker_symbol>>, forecast_failed |-> FALSE]
    IN  Assign(Outcome(Assign(s, updates), DOMAIN updates), [precomputed |-> TRUE])

\* the second try block of set_analysis_ticker, on the session after the first;
\* pre: whether the sentiment, forecast, recommendation or plot raises
Precompute(s, ticker_symbol, pre) ==
    LET updates ==
            IF pre
            THEN [forecast_failed |-> TRUE]
            ELSE [rec_text |-> <<ticker_symbol>>, rec_fig |-> <<ticker_symbol>>,
                  forecast_fig |-> <<ticker_symbol>>, forecast_failed |-> FALSE]
    IN  Assign(Outcome(Assign(s, updates), DOMAIN updates), [precomputed |-> TRUE])

\* a plausible slip: the disambiguation box is left open
StoreKeepingDisambiguation(s, ticker_symbol, t, pre) ==
    LET updates ==
            [ticker |-> ticker_symbol, key_metrics |-> <<t[1]>>,
             figs |-> <<t[2]>>, profile_info |-> <<t[3]>>,
             analysis_ready |-> TRUE, ticker_options |-> <<>>, page |-> "overview"]
        then == Precompute(Assign(s, updates), ticker_symbol, pre)
    IN  Assign(then, [wrote |-> DOMAIN updates \cup then.wrote])

\* set_analysis_ticker from "Store primary data" on: the stores of the first
\* try block, then the second try block
Store(s, ticker_symbol, t, pre) ==
    LET updates ==
            [ticker |-> ticker_symbol, key_metrics |-> <<t[1]>>,
             figs |-> <<t[2]>>, profile_info |-> <<t[3]>>,
             analysis_ready |-> TRUE, show_disambiguation |-> FALSE,
             ticker_options |-> <<>>, page |-> "overview"]
        then == Precompute(Assign(s, updates), ticker_symbol, pre)
    IN  Assign(then, [wrote |-> DOMAIN updates \cup then.wrote])

\* a plausible slip: the symbol is stored before it is validated
SetTickerBeforeValidation(s, ticker_symbol, t, pre) ==
    LET o ==
            IF ~UnpacksToThree(t)
            THEN Assign(Outcome(Assign(s, [ticker |-> ticker_symbol]), {"ticker"}),
                        [error |-> "Critical Error during validation"])
            ELSE IF "Error" \in DOMAIN t[1]
            THEN Assign(Outcome(Assign(s, [ticker |-> ticker_symbol]), {"ticker"}),
                        [error |-> "No data found for symbol"])
            ELSE Store(s, ticker_symbol, t, pre)
    IN  Assign(o, [called |-> <<ticker_symbol>>, before |-> s])

\* t: what fundamentals.get_fundamentals(ticker_symbol) returns
set_analysis_ticker(s, ticker_symbol, t, pre) ==
    LET o ==
            IF ~UnpacksToThree(t)
            THEN Assign(Outcome(s, {}), [error |-> "Critical Error during validation"])
            ELSE IF "Error" \in DOMAIN t[1]
            THEN Assign(Outcome(s, {}), [error |-> "No data found for symbol"])
            ELSE Store(s, ticker_symbol, t, pre)
    IN  Assign(o, [called |-> <<ticker_symbol>>, before |-> s])

\* a plausible slip: the recommendation and the forecast are not reset
ResetWithoutRecommendation(input_company) ==
    [analysis_ready |-> FALSE, show_disambiguation |-> FALSE,
     last_query |-> input_company, key_metrics |-> <<>>, profile_info |-> <<>>,
     figs |-> <<>>, forecast_failed |-> FALSE]

\* the assignments under "Reset all states"
ResetAllStates(input_company) ==
    [analysis_ready |-> FALSE, show_disambiguation |-> FALSE,
     last_query |-> input_company, key_metrics |-> <<>>, profile_info |-> <<>>,
     figs |-> <<>>, rec_text |-> <<>>, rec_fig |-> <<>>, forecast_fig |-> <<>>,
     forecast_failed |-> FALSE]

\* a plausible slip: the first option is taken whenever there is one
NavigateTakingFirstOption(s, input_company, found, t, pre) ==
    IF input_company = ""
    THEN Assign(Outcome(s, {}), [error |-> "Please enter a company name"])
    ELSE LET reset == Assign(s, ResetAllStates(input_company))
             wrote == DOMAIN ResetAllStates(input_company)
             options == find_ticker_options(input_company, found.n)
         IN  IF found.raises
             THEN Assign(Outcome(reset, wrote), [error |-> "Critical Error during search"])
             ELSE IF options = <<>>
             THEN Assign(Outcome(reset, wrote), [error |-> "No stock market results found"])
             ELSE LET then == set_analysis_ticker(reset, options[1].ticker, t, pre)
                  IN  Assign(then, [wrote |-> wrote \cup then.wrote])

\* found: whether the search raises, and how many options it finds
navigate_to_analysis(s, input_company, found, t, pre) ==
    IF input_company = ""
    THEN Assign(Outcome(s, {}), [error |-> "Please enter a company name"])
    ELSE LET reset == Assign(s, ResetAllStates(input_company))
             wrote == DOMAIN ResetAllStates(input_company)
             options == find_ticker_options(input_company, found.n)
         IN  IF found.raises
             THEN Assign(Outcome(reset, wrote), [error |-> "Critical Error during search"])
             ELSE IF options = <<>>
             THEN Assign(Outcome(reset, wrote), [error |-> "No stock market results found"])
             ELSE IF Len(options) = 1
             THEN LET then == set_analysis_ticker(reset, options[1].ticker, t, pre)
                  IN  Assign(then, [wrote |-> wrote \cup then.wrote])
             ELSE Outcome(Assign(reset, [ticker_options |-> options,
                                         show_disambiguation |-> TRUE]),
                          wrote \cup {"ticker_options", "show_disambiguation"})

\* the most options a search answers with, the most requests of a session
MaxOptions == 2
MaxRequests == 3

Queries == {"", "sony", "bp", "aapl"}
SearchOutcomes ==
    {[raises |-> TRUE, n |-> 0]} \cup {[raises |-> FALSE, n |-> n] : n \in 0..MaxOptions}
Lookups ==
    {FailedLookup,
     [raises |-> FALSE, pe |-> Whole(-5), roe |-> Whole(25), pm |-> Q(30, 100),
      de |-> Whole(0)]}
Pages == {"market", "overview", "technical", "forecast", "comparison"}

\* what get_fundamentals returns: the metrics and the figures
TwoValues == {get_fundamentals(f) : f \in Lookups}
\* what a provider would return that also returned the profile
ThreeValues == {get_fundamentals(f) \o <<"profile">> : f \in Lookups}

\* the record of a callback that ran: o is what it did
Call(op, query, found, t, pre, o) ==
    [op |-> op, query |-> query, found |-> found,
     called |-> o.called, before |-> o.before, wrote |-> o.wrote, error |-> o.error,
     precomputed |-> o.precomputed,
     returned |-> IF o.called = <<>> THEN <<>> ELSE t,
     pre |-> o.precomputed /\ pre]

NoSearch == [raises |-> FALSE, n |-> 0]
NoCall(op, query) == Call(op, query, NoSearch, <<>>, FALSE, Outcome(InitialSession, {}))

IdleApp ==
    /\ ss = InitialSession
    /\ written = [fld \in AllFields |-> 0]
    /\ req = 0
    /\ lastCall = NoCall("idle", "")

InitApp ==
    /\ ss = InitialSession
    /\ written = [fld \in AllFields |-> 0]
    /\ req = 0
    /\ lastCall = NoCall("start", "")

Stamp(wrote, r) == [fld \in AllFields |-> IF fld \in wrote THEN r ELSE written[fld]]

\* the Analyze button, with the lookup returning one of Returned
NavigateWith(Returned) ==
    /\ lastCall.op # "idle"
    /\ req < MaxRequests
    /\ \E input_company \in Queries, found \in SearchOutcomes, t \in Returned,
          pre \in BOOLEAN :
           LET r == navigate_to_analysis(ss, input_company, found, t, pre)
           IN  /\ ss' = r.ss
               /\ written' = Stamp(r.wrote, req + 1)
               /\ lastCall' =
                      Call("navigate", input_company,
                           IF input_company = "" THEN NoSearch ELSE found, t, pre, r)
    /\ req' = req + 1
    /\ UNCHANGED exceptApp

\* one of the buttons of the disambiguation box
SelectOptionWith(Returned) ==
    /\ lastCall.op # "idle"
    /\ req < MaxRequests
    /\ ss.show_disambiguation
    /\ \E i \in 1..Len(ss.ticker_options), t \in Returned, pre \in BOOLEAN :
           LET r == set_analysis_ticker(ss, ss.ticker_options[i].ticker, t, pre)
           IN  /\ ss' = r.ss
               /\ written' = Stamp(r.wrote, req + 1)
               /\ lastCall' = Call("select", ss.last_query, NoSearch, t, pre, r)
    /\ req' = req + 1
    /\ UNCHANGED exceptApp

Navigate == NavigateWith(TwoValues)
SelectOption == SelectOptionWith(TwoValues)

\* the same two callbacks when the lookup may also return three values
NavigateThree == NavigateWith(TwoValues \cup ThreeValues)
SelectOptionThree == SelectOptionWith(TwoValues \cup ThreeValues)

\* the sidebar buttons: the analysis pages are disabled until an analysis is ready
SetPage ==
    /\ lastCall.op # "idle"
    /\ \E page_name \in Pages :
           /\ page_name = "market" \/ ss.analysis_ready
           /\ ss' = Assign(ss, [page |-> page_name])
           /\ lastCall' = NoCall("page", lastCall.query)
    /\ UNCHANGED <<written, req>>
    /\ UNCHANGED exceptApp

-----------------------------------------------------------------------------
(* One get_headlines call *)

\* the largest limit argument
MaxLimit == 2

T9 == <<"O", "i", "l", " ", "f", "a", "l", "l", "s">>
PrimaryTitles == {TBlank, T8, T8Padded, T10, THttp, TDots, NoneTitle}
FallbackTitles == {T5, T9, T10, NoneTitle}

NewsPrimary ==
    {[raises |-> TRUE, items |-> <<>>]} \cup
    {[raises |-> FALSE, items |-> items] :
        items \in UNION {[1..n -> PrimaryTitles] : n \in 0..MaxHeadlines}}
NewsFallback ==
    {[ok |-> FALSE, items |-> <<>>]} \cup
    {[ok |-> TRUE, items |-> items] :
        items \in UNION {[1..n -> FallbackTitles] : n \in 0..MaxHeadlines}}

NotFetched == [list |-> <<>>, fallback_queried |-> FALSE]

IdleNews ==
    /\ news = [primary |-> [raises |-> TRUE, items |-> <<>>],
               fallback |-> [ok |-> FALSE, items |-> <<>>]]
    /\ limit_arg = 0
    /\ gh_pc = "idle"
    /\ fetched = NotFetched

InitNews ==
    /\ news \in [primary : NewsPrimary, fallback : NewsFallback]
    /\ limit_arg \in 0..MaxLimit
    /\ gh_pc = "call"
    /\ fetched = NotFetched

GetHeadlines ==
    /\ gh_pc = "call"
    /\ gh_pc' = "returned"
    /\ fetched' = Fetch(news, limit_arg)
    /\ UNCHANGED <<news, limit_arg>>
    /\ UNCHANGED exceptNews

Init == IdleNorm /\ InitRec /\ IdleEns /\ IdleSent /\ IdleSim /\ IdleApp /\ IdleNews
Next == GetRecommendation
Spec == Init /\ [][Next]_vars

InitScore == IdleNorm /\ InitRec /\ IdleEns /\ IdleSent /\ IdleSim /\ IdleApp /\ IdleNews
NextScore == Score
SpecScore == InitScore /\ [][NextScore]_vars

InitNormalize == InitNorm /\ IdleRec /\ IdleEns /\ IdleSent /\ IdleSim /\ IdleApp /\ IdleNews
NextNormalize == Normalize /\ UNCHANGED exceptNorm
SpecNorm == InitNormalize /\ [][NextNormalize]_vars

InitEnsemble == IdleNorm /\ IdleRec /\ InitEns /\ IdleSent /\ IdleSim /\ IdleApp /\ IdleNews
NextEnsemble == EnsStart \/ RunModel
SpecEns == InitEnsemble /\ [][NextEnsemble]_vars

InitSentiment == IdleNorm /\ IdleRec /\ IdleEns /\ InitSent /\ IdleSim /\ IdleApp /\ IdleNews
NextSentiment == AnalyzeSentiment
SpecSent == InitSentiment /\ [][NextSentiment]_vars

InitSimulator == IdleNorm /\ IdleRec /\ IdleEns /\ IdleSent /\ InitSim /\ IdleApp /\ IdleNews
NextSimulator == GenerateForecast
SpecSim == InitSimulator /\ [][NextSimulator]_vars

InitSession == IdleNorm /\ IdleRec /\ IdleEns /\ IdleSent /\ IdleSim /\ InitApp /\ IdleNews
NextSession == Navigate \/ SelectOption \/ SetPage
SpecApp == InitSession /\ [][NextSession]_vars

\* the session with a fundamentals provider that may return the three values
\* app.py unpacks; every behaviour of SpecApp is one of SpecAppThree
NextSessionThree == NavigateThree \/ SelectOptionThree \/ SetPage
SpecAppThree == InitSession /\ [][NextSessionThree]_vars

InitHeadlines ==
    IdleNorm /\ IdleRec /\ IdleEns /\ IdleSent /\ IdleSim /\ IdleApp /\ InitNews
NextHeadlines == GetHeadlines
SpecNews == InitHeadlines /\ [][NextHeadlines]_vars

-----------------------------------------------------------------------------
(* Properties *)

One == Whole(1)
MinusOne == Whole(-1)
Zero == Whole(0)

\* a number lies in [-1, 1]
InUnit(a) == IsNum(a) /\ -a.d <= a.n /\ a.n <= a.d

\* 10 * c = wf * f + wg * g + ws * s, in integers
TenTimes(c, wf, f, wg, g, ws, s) ==
    /\ IsNum(c) /\ IsNum(f) /\ IsNum(g) /\ IsNum(s)
    /\ 10 * c.n * f.d * g.d * s.d
         = c.d * (wf * f.n * g.d * s.d + wg * g.n * f.d * s.d + ws * s.n * f.d * g.d)

\* the metrics dict of the request and the ratios it lacks
Metrics == get_fundamentals(fund)[1]
RatioKeys == {"P/E Ratio", "ROE", "Profit Margin", "Debt-to-Equity"}
Present == {x \in RatioKeys : x \in DOMAIN Metrics /\ Metrics[x] # NA}

\* the normalized value of a present ratio, by the table of domains
NormalizedRatio(x) ==
    LET v == safe_num(Metrics[x])
    IN  CASE x = "P/E Ratio" -> _normalize(Sub(Whole(40), v), Whole(-20), Whole(40))
          [] x = "ROE" -> _normalize(v, Zero, Whole(25))
          [] x = "Profit Margin" -> _normalize(v, Zero, Whole(30))
          [] OTHER -> _normalize(Sub(Whole(200), v), Whole(-100), Whole(200))

RECURSIVE SumOver(_)
SumOver(S) ==
    IF S = {} THEN Zero
    ELSE LET x == CHOOSE z \in S : TRUE
         IN  Add(NormalizedRatio(x), SumOver(S \ {x}))

\* the inner try of the request raises
ForecastStepFails == hist_df = <<>> \/ ~simulations.ok \/ sentiment_score = None

\* C1: for low < high and a raw value that is a number, _normalize(raw, low, high)
\* lies in [-1, 1], is -1 at raw = low and 1 at raw = high, and of two calls the
\* one with the smaller raw value never gives the larger result.
C1_NormalizeBoundedMonotone ==
    (Lt(low, high) /\ IsNum(raw)) =>
        /\ InUnit(out)
        /\ (raw = low => out = MinusOne)
        /\ (raw = high => out = One)
        /\ (IsNum(prevRaw) /\ Le(prevRaw, raw) => Le(prevOut, out))
        /\ (IsNum(prevRaw) /\ Le(raw, prevRaw) => Le(out, prevOut))

\* two calls strictly inside the domain, the second with the larger raw value
C1_Witness ==
    /\ Lt(low, high) /\ IsNum(raw) /\ IsNum(prevRaw)
    /\ Lt(prevRaw, raw) /\ Lt(prevOut, out)
    /\ Lt(MinusOne, prevOut) /\ Lt(out, One)

\* C2 (as claimed): with exactly two of the four ratios present the fundamental
\* score is the mean of the two normalized values.
C2_MeanOfPresentRatios ==
    (pc = "returned" /\ rec.kind = "ok" /\ Cardinality(Present) = 2) =>
        rec.fundamental_score = Div(SumOver(Present), Whole(2))

\* C3: the label is decided by the composite alone: above 0.6 Strong Buy,
\* in (0.3, 0.6] Buy, in (-0.3, 0.3] Hold, in (-0.6, -0.3] Sell, at or below
\* -0.6 Strong Sell.
C3_LabelRanges ==
    (pc = "returned" /\ rec.kind = "ok") =>
        LET c == rec.comp
            Above(t) == 10 * c.n > t * c.d
        IN  /\ IsNum(c)
            /\ rec.label \in {"Strong Buy", "Buy", "Hold", "Sell", "Strong Sell"}
            /\ (rec.label = "Strong Buy" <=> Above(6))
            /\ (rec.label = "Buy" <=> (Above(3) /\ ~Above(6)))
            /\ (rec.label = "Hold" <=> (Above(-3) /\ ~Above(3)))
            /\ (rec.label = "Sell" <=> (Above(-6) /\ ~Above(-3)))
            /\ (rec.label = "Strong Sell" <=> ~Above(-6))

\* a composite exactly on the lowest threshold
C3_Witness ==
    pc = "returned" /\ rec.kind = "ok" /\ rec.comp = Q(-6, 10) /\ rec.label = "Strong Sell"

\* C4 (as claimed): a composite of exactly 0.6 is labelled Hold, and a composite
\* above 0.6 is labelled Strong Buy.
C4_PointSixIsHold ==
    (pc = "returned" /\ rec.kind = "ok") =>
        /\ (rec.comp = Q(6, 10) => rec.label = "Hold")
        /\ (Gt(rec.comp, Q(6, 10)) => rec.label = "Strong Buy")

\* C4 (amended): a composite of exactly 0.6 is labelled Buy, not Strong Buy, and a
\* composite above 0.6 is labelled Strong Buy.
C4_PointSixIsBuy ==
    (pc = "returned" /\ rec.kind = "ok") =>
        /\ (rec.comp = Q(6, 10) => rec.label = "Buy")
        /\ (10 * rec.comp.n > 6 * rec.comp.d => rec.label = "Strong Buy")

C4_Witness ==
    pc = "returned" /\ rec.kind = "ok" /\ rec.comp = Q(6, 10) /\ rec.label = "Buy"

\* C5: the composite is 0.4 * forecast + 0.3 * fundamental + 0.3 * sentiment;
\* signals (1,1,1) give 1.0 and Strong Buy, (-1,-1,-1) give -1.0 and Strong Sell,
\* (0,0,0) give 0.0, Hold and confidence 0.
C5_CompositeWeights ==
    (pc = "returned" /\ rec.kind = "ok") =>
        LET f == rec.forecast_score
            g == rec.fundamental_score
            s == rec.sentiment_norm
        IN  /\ TenTimes(rec.comp, 4, f, 3, g, 3, s)
            /\ (f = One /\ g = One /\ s = One =>
                    rec.comp = One /\ rec.label = "Strong Buy")
            /\ (f = MinusOne /\ g = MinusOne /\ s = MinusOne =>
                    rec.comp = MinusOne /\ rec.label = "Strong Sell")
            /\ (f = Zero /\ g = Zero /\ s = Zero =>
                    rec.comp = Zero /\ rec.label = "Hold" /\ rec.conf = Zero)

C5_Witness ==
    /\ pc = "returned" /\ rec.kind = "ok"
    /\ rec.forecast_score = One /\ rec.fundamental_score = One
    /\ rec.sentiment_norm = One
    /\ rec.comp = One /\ rec.label = "Strong Buy"

\* C6: whatever the inputs, the three signals and the composite lie in [-1, 1]
\* and the confidence is |composite|, in [0, 1].
C6_SignalsInRange ==
    (pc = "returned" /\ rec.kind = "ok") =>
        /\ InUnit(rec.forecast_score)
        /\ InUnit(rec.fundamental_score)
        /\ InUnit(rec.sentiment_norm)
        /\ InUnit(rec.comp)
        /\ IsNum(rec.conf) /\ rec.conf.d = rec.comp.d
        /\ rec.conf.n = (IF rec.comp.n < 0 THEN -rec.comp.n ELSE rec.comp.n)
        /\ 0 <= rec.conf.n /\ rec.conf.n <= rec.conf.d

\* sentiment outside [-1, 1], a ratio missing and the forecast step failed
C6_Witness ==
    /\ pc = "returned" /\ rec.kind = "ok"
    /\ sentiment_score = Whole(-2) /\ rec.sentiment_norm = MinusOne
    /\ Cardinality(Present) = 3
    /\ hist_df = <<>> /\ rec.forecast_error_printed
    /\ rec.comp.n < 0 /\ rec.conf.n > 0

\* C7: _normalize gives 0, and raises nothing, when the raw value is None or NaN,
\* whatever low and high are.
C7_MissingRawIsNeutral ==
    (raw = None \/ raw = NaN) => out = Zero

\* both kinds of missing value, with limits that would divide by zero
C7_Witness ==
    /\ raw = NaN /\ prevRaw = None
    /\ out = Zero /\ prevOut = Zero
    /\ low = high

\* C8: no exception leaves get_recommendation: every request returns a pair.
C8_NoExceptionEscapes ==
    pc = "returned" => rec.kind \in {"ok", "error"}

\* a request with an empty price frame and a malformed simulation matrix
C8_Witness ==
    /\ pc = "returned" /\ rec.kind \in {"ok", "error"}
    /\ hist_df = <<>> /\ ~simulations.ok /\ sentiment_score = NaN
    /\ ~fund.raises

\* C9 (as claimed): with no ratio, a failed forecast step and no sentiment the
\* request still returns a recommendation: Hold, composite 0, confidence 0.
C9_AllUnavailableGivesHold ==
    (pc = "returned" /\ Present = {} /\ ForecastStepFails /\ sentiment_score = None) =>
        /\ rec.kind = "ok"
        /\ rec.label = "Hold"
        /\ rec.comp = Zero
        /\ rec.conf = Zero

\* C10: a signal that is not available counts 0 under its own weight and the
\* other weights stay as they are: with no ratio present the composite is
\* 0.4 * forecast + 0.3 * sentiment, and when the forecast step raises it is
\* 0.3 * fundamental + 0.3 * sentiment.
C10_WeightsNotRenormalized ==
    (pc = "returned" /\ rec.kind = "ok") =>
        /\ (Present = {} =>
                TenTimes(rec.comp, 4, rec.forecast_score, 0, Zero, 3, rec.sentiment_norm))
        /\ (ForecastStepFails =>
                TenTimes(rec.comp, 0, Zero, 3, rec.fundamental_score, 3, rec.sentiment_norm))

\* no ratio present, forecast and sentiment both at +1: composite 0.7
C10_Witness ==
    /\ pc = "returned" /\ rec.kind = "ok"
    /\ Present = {} /\ ~ForecastStepFails
    /\ rec.forecast_score = One /\ rec.sentiment_norm = One
    /\ rec.comp = Q(7, 10)

\* C16: when the forecast step succeeds, the forecast signal is the percent
\* change p from the last price P0 to (median of the last simulation row
\* + P0 * s * 0.1), normalized over (-10, 10): p / 10 clamped to [-1, 1]; and for
\* s in [-1, 1] the nudge is at most 10% of P0 and has the sign of s.
C16_ForecastSignal ==
    (pc = "returned" /\ rec.kind = "ok" /\ hist_df # <<>> /\ simulations.ok
        /\ IsNum(sentiment_score)) =>
        LET P0 == Whole(hist_df[Len(hist_df)])
            s == sentiment_score
            adjusted == Add(Percentile50(simulations.row), Div(Mul(P0, s), Whole(10)))
            tenth == Div(Mul(Sub(adjusted, P0), Whole(10)), P0)
            drift == SentimentDrift(hist_df, s)
        IN  /\ rec.forecast_score =
                   (IF Le(One, tenth) THEN One
                    ELSE IF Le(tenth, MinusOne) THEN MinusOne ELSE tenth)
            /\ (Le(MinusOne, s) /\ Le(s, One)) =>
                   /\ IsNum(drift)
                   /\ 10 * Abs(drift.n) <= P0.n * drift.d
                   /\ (s.n > 0 <=> drift.n > 0)
                   /\ (s.n < 0 <=> drift.n < 0)

\* sentiment 0.8 on a flat median: the nudge alone gives +8%, signal 0.8
C16_Witness ==
    /\ pc = "returned" /\ rec.kind = "ok"
    /\ hist_df = <<95, 100>> /\ simulations.ok
    /\ Percentile50(simulations.row) = Whole(100)
    /\ sentiment_score = Q(8, 10)
    /\ SentimentDrift(hist_df, sentiment_score) = Whole(8)
    /\ rec.forecast_score = Q(8, 10)

\* C17 (as claimed): end to end, a horizon-end median at least 10% above the last
\* price, sentiment +0.8 and all four ratios at their favourable extreme give a
\* recommendation with composite > 0.6, label Strong Buy and confidence > 0.6.
C17_StrongBuyEndToEnd ==
    (/\ pc = "returned"
     /\ hist_df # <<>> /\ simulations.ok
     /\ 10 * Percentile50(simulations.row).n
            >= 11 * hist_df[Len(hist_df)] * Percentile50(simulations.row).d
     /\ sentiment_score = Q(8, 10)
     /\ ~fund.raises
     /\ fund.pe = Whole(-5) /\ fund.roe = Whole(25)
     /\ fund.pm = Q(30, 100) /\ fund.de = Whole(0)) =>
        /\ rec.kind = "ok"
        /\ rec.label = "Strong Buy"
        /\ Gt(rec.comp, Q(6, 10))
        /\ Gt(rec.conf, Q(6, 10))

-----------------------------------------------------------------------------
(* The ensemble *)

\* the model raised inside _safe_run, or fell back on its own (library not
\* imported, or the Transformer's own except)
Failed(m) ==
    LET r == ModelFunction(m, y, env, lib[m])
    IN  r.raised \/ r.printed

Finished == epc \in {"returned", "raised"}

\* C11: when a model raises or its library is missing, its entry is a path of
\* as many values as there are future dates, every value the last observed
\* price.
C11_FallbackIsFlatAtLastPrice ==
    epc = "returned" =>
        \A m \in ModelSet : Failed(m) => Pred(m) = Path(FutureDays, TRUE, y.last)

C11_Witness ==
    /\ epc = "returned"
    /\ ~env.keras
    /\ y.len > WindowSmall
    /\ lib["SVR"].raises
    /\ lib["Transformer"].raises
    /\ \A m \in {"LSTM", "SVR", "Transformer"} : Pred(m) = Repeat(y, FutureDays)

\* the status the result carries for a model, if it carries one
Status(m) == IF "status" \in DOMAIN ens THEN ens.status[m] ELSE "absent"

\* C12: the result carries a status per model that says whether its path is a
\* fallback or a forecast.
C12_StatusPerModel ==
    epc = "returned" =>
        \A m \in ModelSet : Status(m) = (IF Failed(m) THEN "fallback" ELSE "forecast")

\* C13: on a non-empty series the run returns, whichever models fail, with an
\* entry for each of the four models, each of 30 values, and 30 future dates;
\* a model that did not fail keeps its own forecast.
C13_FailuresIsolated ==
    (Finished /\ y.len > 0) =>
        /\ ens.kind = "ok"
        /\ Len(ens.preds) = Len(Models)
        /\ ens.future_dates = FutureDays
        /\ \A m \in ModelSet :
               /\ Pred(m).len = FutureDays
               /\ ~Failed(m) => Pred(m) = lib[m].path

C13_Witness ==
    /\ epc = "returned"
    /\ y.len > WindowLSTM
    /\ \E a, b \in ModelSet :
           /\ ModelFunction(a, y, env, lib[a]).raised
           /\ ~Failed(b)
           /\ ~Pred(b).flat

\* C14: no model function is invoked more than once in a run, and a model
\* that failed was invoked exactly once.
C14_AttemptedAtMostOnce ==
    \A m \in ModelSet :
        /\ calls[m] <= 1
        /\ warned[m] => calls[m] = 1

C14_Witness ==
    /\ epc = "returned"
    /\ \E m \in ModelSet : ModelFunction(m, y, env, lib[m]).raised /\ calls[m] = 1
    /\ \A m \in ModelSet : calls[m] = 1

\* C15: a series that is empty or no longer than the shortest window ends the
\* run without a forecast and without any model having been attempted.
C15_ShortSeriesRejected ==
    (Finished /\ y.len <= WindowSmall) =>
        /\ ens.kind # "ok"
        /\ \A m \in ModelSet : calls[m] = 0

-----------------------------------------------------------------------------
(* News sentiment *)

\* what get_headlines handed to analyze_sentiment
Headlines == get_headlines(feed, HeadlineLimit)

\* no title is left once the empty and the shorter-than-8 ones are dropped
\* (dropping duplicates never empties a list)
NoneRemains ==
    \A i \in 1..Len(Headlines) : Len(Strip(Headlines[i])) < MinTitleLength

\* C19: analyze_sentiment always returns, and returns score 0.0 and no figure
\* when there are no headlines, when filtering leaves none, and when an
\* exception occurs inside it.
C19_NeutralWhenNothingToScore ==
    sa_pc = "returned" =>
        /\ sa.kind = "returned"
        /\ (Headlines = <<>> \/ NoneRemains \/ scoring.raises # "nothing") =>
               (sa.fig = "None" /\ sa.score = Whole(0))

C19_Witness ==
    /\ sa_pc = "returned"
    /\ Headlines # <<>>
    /\ NoneRemains
    /\ sa.summary = "No valid text headlines found."
    /\ sa.score = Whole(0)

-----------------------------------------------------------------------------
(* The simulator *)

\* the pure trend-compounded price of day t: P0 times the product of 1 + drift
RECURSIVE TrendCompounded(_, _, _)
TrendCompounded(p0, drift, t) ==
    IF t = 0 THEN p0
    ELSE Mul(TrendCompounded(p0, drift, t - 1), Add(Whole(1), drift[t]))

P0 == Whole(prices[Len(prices)])

Constant(series) == \A i \in 1..Len(series) : series[i] = series[1]

\* C18: with volatility 0 every one of the N paths is the trend-compounded
\* path, and for a constant price series every path is P0 repeated.
C18_ZeroVolatilityPaths ==
    mc_pc = "returned" =>
        /\ VolatilityEstimator(prices) = Whole(0) =>
               \A n \in 1..num_simulations : \A t \in 1..period :
                   bundle[n][t] = TrendCompounded(P0, TrendEstimator(prices, period), t)
        /\ Constant(prices) =>
               \A n \in 1..num_simulations : \A t \in 1..period : bundle[n][t] = P0

C18_Witness ==
    /\ mc_pc = "returned"
    /\ ~Constant(prices)
    /\ VolatilityEstimator(prices) = Whole(0)
    /\ num_simulations >= 2
    /\ period >= 2
    /\ bundle[1] = bundle[2]
    /\ bundle[1][period] # P0

-----------------------------------------------------------------------------
(* The session *)

\* the fields that hold the results of an analysis request
ResultFields ==
    {"analysis_ready", "show_disambiguation", "key_metrics", "profile_info", "figs",
     "rec_text", "rec_fig", "forecast_fig", "forecast_failed", "ticker",
     "ticker_options"}

\* C20: after navigate_to_analysis ran with a non-empty query, every result
\* field holds its empty initial value or a value this request assigned.
C20_NoEarlierResultSurvives ==
    (lastCall.op = "navigate" /\ lastCall.query # "") =>
        \A fld \in ResultFields \cap DOMAIN ss :
            ss[fld] = EmptySession[fld] \/ written[fld] = req

-----------------------------------------------------------------------------
(* Missing sentiment *)

\* the percent change from the last price to the median of the last
\* simulation row, divided by 10 and clamped to [-1, 1]
UnadjustedSignal ==
    LET last_actual == Whole(hist_df[Len(hist_df)])
        tenth ==
            Div(Mul(Sub(Percentile50(simulations.row), last_actual), Whole(10)),
                last_actual)
    IN  IF Le(One, tenth) THEN One
        ELSE IF Le(tenth, MinusOne) THEN MinusOne ELSE tenth

\* C30: with a sentiment input of None or NaN and a usable forecast, the
\* sentiment signal is 0 and the forecast signal is the one sentiment 0 gives.
C30_MissingSentimentKeepsForecast ==
    (pc = "returned" /\ rec.kind = "ok" /\ hist_df # <<>> /\ simulations.ok
        /\ sentiment_score \in {None, NaN}) =>
        /\ rec.sentiment_norm = Zero
        /\ rec.forecast_score = UnadjustedSignal

-----------------------------------------------------------------------------
(* The headlines *)

\* the primary source gave results and raised nowhere
PrimarySucceeded ==
    /\ ~news.primary.raises
    /\ FirstItems(news.primary.items, limit_arg) # <<>>
    /\ \A i \in 1..Len(FirstItems(news.primary.items, limit_arg)) :
           news.primary.items[i] # NoneTitle

\* the fallback answered and raised nowhere
FallbackSucceeded ==
    /\ news.fallback.ok
    /\ \A i \in 1..Len(FirstItems(news.fallback.items, limit_arg)) :
           news.fallback.items[i] # NoneTitle

\* C28: the fallback is queried exactly when the primary source gave no results
\* or raised; the returned titles are pairwise different, stripped, of 5
\* characters or more, not starting with http and without "..."; the list is
\* empty when both sources fail.
C28_HeadlinesClean ==
    gh_pc = "returned" =>
        /\ fetched.fallback_queried <=> ~PrimarySucceeded
        /\ \A i, j \in 1..Len(fetched.list) :
               i # j => fetched.list[i] # fetched.list[j]
        /\ \A i \in 1..Len(fetched.list) :
               LET title == fetched.list[i]
               IN  /\ title # <<>>
                   /\ title # NoneTitle
                   /\ Len(title) >= MinFetchedLength
                   /\ ~IsSpace(title[1]) /\ ~IsSpace(title[Len(title)])
                   /\ ~StartsWithHttp(title)
                   /\ ~HasEllipsis(title)
        /\ (~PrimarySucceeded /\ ~FallbackSucceeded) => fetched.list = <<>>

\* a primary loop that raised after a good item and before a duplicate of
\* what the fallback then delivers
C28_Witness ==
    /\ gh_pc = "returned"
    /\ limit_arg = 2
    /\ news.primary.items = <<T10, NoneTitle>>
    /\ news.fallback.items = <<T10, T9>>
    /\ fetched.fallback_queried
    /\ fetched.list = <<T10, T9>>

\* C29: the returned list is never longer than the limit.
C29_AtMostLimit ==
    gh_pc = "returned" => Len(fetched.list) <= limit_arg

-----------------------------------------------------------------------------
(* set_analysis_ticker and navigate_to_analysis *)

\* set_analysis_ticker ran in the last callback; Symbol is its argument and
\* Returned what the fundamentals lookup gave it
Called == lastCall.called # <<>>
Symbol == lastCall.called[1]
Returned == lastCall.returned
LookupSucceeded == "Error" \notin DOMAIN Returned[1]
ValidationFailed == ~UnpacksToThree(Returned) \/ ~LookupSucceeded

\* C21: when the lookup returns metrics without an 'Error' key,
\* set_analysis_ticker stores the symbol, the metrics and the figures, sets
\* analysis_ready, clears show_disambiguation and ticker_options, and selects
\* the overview page.
C21_SuccessfulLookupIsStored ==
    (Called /\ LookupSucceeded) =>
        /\ ss.ticker = Symbol
        /\ ss.key_metrics = <<Returned[1]>>
        /\ ss.figs = <<Returned[2]>>
        /\ ss.analysis_ready
        /\ ~ss.show_disambiguation
        /\ ss.ticker_options = <<>>
        /\ ss.page = "overview"

\* C22: after navigate_to_analysis with a non-empty query: a search that
\* raises is reported; no option leaves analysis_ready and show_disambiguation
\* false and reports an error; one option calls set_analysis_ticker for it and
\* shows no disambiguation; two or more are stored in ticker_options with
\* show_disambiguation true, and ticker is not assigned.
C22_DispatchOnOptions ==
    (lastCall.op = "navigate" /\ lastCall.query # "") =>
        LET found == lastCall.found
            options == find_ticker_options(lastCall.query, found.n)
        IN  /\ found.raises =>
                   /\ lastCall.error = "Critical Error during search"
                   /\ ~Called
                   /\ ~ss.analysis_ready /\ ~ss.show_disambiguation
            /\ (~found.raises /\ found.n = 0) =>
                   /\ lastCall.error = "No stock market results found"
                   /\ ~Called
                   /\ ~ss.analysis_ready /\ ~ss.show_disambiguation
            /\ (~found.raises /\ found.n = 1) =>
                   /\ lastCall.called = <<options[1].ticker>>
                   /\ ~ss.show_disambiguation
            /\ (~found.raises /\ found.n >= 2) =>
                   /\ ss.ticker_options = options
                   /\ ss.show_disambiguation
                   /\ ~Called
                   /\ "ticker" \notin lastCall.wrote

C22_Witness ==
    /\ lastCall.op = "navigate"
    /\ lastCall.found.n = 1
    /\ lastCall.called = <<<<lastCall.query, 1>>>>
    /\ req >= 2

C24_FailedValidationChangesNothing ==
    (Called /\ ValidationFailed) =>
        /\ ~lastCall.precomputed
        /\ \A fld \in {"ticker", "key_metrics", "figs", "analysis_ready",
                       "show_disambiguation", "ticker_options", "page",
                       "forecast_failed"} :
               ss[fld] = lastCall.before[fld]

C24_Witness ==
    /\ lastCall.op = "select"
    /\ Called
    /\ ValidationFailed
    /\ ss.show_disambiguation
    /\ Len(ss.ticker_options) = 2

AnalysisPages == {"overview", "technical", "forecast", "comparison"}

====
